---- MODULE Spec2Model ----
(***************************************************************************)
(* Model of the nexte terminal editor (latest snapshot of nexte.c): the    *)
(* row store and tab renderer, the viewport controller, the key decoder    *)
(* and the refresh / read / dispatch loop of main().                       *)
(*                                                                         *)
(* C arrays are 0-based, TLA+ sequences 1-based: E.row[i] of the source is *)
(* E.row[i + 1] here and row->chars[j] is chars[j + 1].                    *)
(***************************************************************************)
EXTENDS Integers, Sequences, FiniteSets, TLC

(***************************************************************************)
(* Program constants                                                       *)
(***************************************************************************)
NEXTE_TAB_STOP == 8

ARROW_LEFT == 1000
ARROW_RIGHT == 1001
ARROW_UP == 1002
ARROW_DOWN == 1003
PAGE_UP == 1004
PAGE_DOWN == 1005
DEL_KEY == 1006
HOME_KEY == 1007
END_KEY == 1008

\* bytes, by their ASCII code
ESC == 27
TAB == 9
SPACE == 32
NUL == 0
CTRL_Q == 17
CH_LBRACKET == 91
CH_O == 79
CH_TILDE == 126
CH_0 == 48
CH_9 == 57
CH_A == 65
CH_B == 66
CH_C == 67
CH_D == 68
CH_F == 70
CH_H == 72
CH_a == 97
CH_x == 120

\* errno values of read()
EAGAIN == 11
EIO == 5

\* largest C int: the page-move loop counts down through it after wrapping
INT_MAX == 2147483647

(***************************************************************************)
(* Bounds of the model                                                     *)
(***************************************************************************)
\* longest raw row given to the tab renderer on its own
MaxLen == 9
\* largest terminal height and width reported by the window size query
MaxWsRow == 4
MaxWsCol == 2
\* cap on the cursor row (a zero-height text area lets PageUp raise it forever)
MaxCy == 4
\* cap on how far below zero a garbage cursor column is followed
MaxNegCx == 2
\* most abAppend calls in a row, in one refresh, that find no memory
MaxAllocFail == 1

(***************************************************************************)
(* Row store and tab renderer                                              *)
(***************************************************************************)
Min(a, b) == IF a < b THEN a ELSE b

\* row->chars[j] for C index j; the byte at index size is the terminating NUL
CharAt(chars, j) == IF j < Len(chars) THEN chars[j + 1] ELSE NUL

\* the loop with the tab width taken one too large
RECURSIVE CxToRxLoopOffByOne(_, _, _, _)
CxToRxLoopOffByOne(chars, cx, j, rx) ==
  IF j < cx
    THEN LET rx1 == IF CharAt(chars, j) = TAB
                      THEN rx + (NEXTE_TAB_STOP - (rx % NEXTE_TAB_STOP))
                      ELSE rx
         IN CxToRxLoopOffByOne(chars, cx, j + 1, rx1 + 1)
    ELSE rx

\* the for loop of editorRowCxToRx, from index j with rx accumulated so far
RECURSIVE CxToRxLoop(_, _, _, _)
CxToRxLoop(chars, cx, j, rx) ==
  IF j < cx
    THEN LET rx1 == IF CharAt(chars, j) = TAB
                      THEN rx + ((NEXTE_TAB_STOP - 1) - (rx % NEXTE_TAB_STOP))
                      ELSE rx
         IN CxToRxLoop(chars, cx, j + 1, rx1 + 1)
    ELSE rx

\* int editorRowCxToRx(erow *row, int cx)
editorRowCxToRx(chars, cx) == CxToRxLoop(chars, cx, 0, 0)

\* the padding loop with tab stops every four columns
RECURSIVE PadToTabStopFour(_)
PadToTabStopFour(render) ==
  IF Len(render) % 4 # 0
    THEN PadToTabStopFour(Append(render, SPACE))
    ELSE render

\* the inner while loop of editorUpdateRow: pad with spaces to the tab stop
RECURSIVE PadToTabStop(_)
PadToTabStop(render) ==
  IF Len(render) % NEXTE_TAB_STOP # 0
    THEN PadToTabStop(Append(render, SPACE))
    ELSE render

\* the second for loop of editorUpdateRow; idx of the source is Len(render),
\* starts collects the value of idx at the top of every iteration
RECURSIVE UpdateRowLoop(_, _, _, _)
UpdateRowLoop(chars, i, render, starts) ==
  IF i < Len(chars)
    THEN LET r1 == IF chars[i + 1] = TAB
                     THEN PadToTabStop(Append(render, SPACE))
                     ELSE Append(render, chars[i + 1])
         IN UpdateRowLoop(chars, i + 1, r1, Append(starts, Len(render)))
    ELSE [render |-> render, starts |-> Append(starts, Len(render))]

\* the copy loop started at the second byte
editorUpdateRowFromOne(chars) == UpdateRowLoop(chars, 1, <<>>, <<>>).render

\* void editorUpdateRow(erow *row): the render form of the raw bytes
editorUpdateRow(chars) == UpdateRowLoop(chars, 0, <<>>, <<>>).render

\* for C index c in 0..size, the render index at which editorUpdateRow
\* starts writing raw byte c (rsize for c = size)
RenderStart(chars, c) == UpdateRowLoop(chars, 0, <<>>, <<>>).starts[c + 1]

\* void editorAppendRow(char *s, size_t len): the new erow
editorAppendRow(s) == [chars |-> s, render |-> editorUpdateRow(s)]

(***************************************************************************)
(* Editor controller: cursor movement                                      *)
(***************************************************************************)
\* E.row[i].size for C index i.  An index outside the row array is a read
\* past the allocation; oob is the value such a read yields.
RowSize(e, i, oob) ==
  IF i >= 0 /\ i < e.numrows THEN Len(e.row[i + 1].chars) ELSE oob

\* ArrowLeft at column 0 reads E.row[E.cy - 1].size; that index is outside
\* the row array when the cursor is below the past-last row
LeftReadsOutside(e) == e.cx = 0 /\ e.cy > 0 /\ e.cy - 1 >= e.numrows

\* the switch with an ArrowLeft that wraps to the start of the row above
MoveSwitchLeftToStart(e, k, oob) ==
  CASE k = ARROW_LEFT ->
         IF e.cx # 0 THEN [e EXCEPT !.cx = e.cx - 1]
         ELSE IF e.cy > 0
           THEN [e EXCEPT !.cy = e.cy - 1, !.cx = 0]
           ELSE e
    [] k = ARROW_RIGHT ->
         IF e.cy < e.numrows /\ e.cx < RowSize(e, e.cy, oob)
           THEN [e EXCEPT !.cx = e.cx + 1]
         ELSE IF e.cy < e.numrows /\ e.cx = RowSize(e, e.cy, oob)
           THEN [e EXCEPT !.cy = e.cy + 1, !.cx = 0]
           ELSE e
    [] k = ARROW_UP ->
         IF e.cy # 0 THEN [e EXCEPT !.cy = e.cy - 1] ELSE e
    [] k = ARROW_DOWN ->
         IF e.cy < e.numrows THEN [e EXCEPT !.cy = e.cy + 1] ELSE e
    [] OTHER -> e

\* the switch of editorMoveCursor
MoveSwitch(e, k, oob) ==
  CASE k = ARROW_LEFT ->
         IF e.cx # 0 THEN [e EXCEPT !.cx = e.cx - 1]
         ELSE IF e.cy > 0
           THEN [e EXCEPT !.cy = e.cy - 1, !.cx = RowSize(e, e.cy - 1, oob)]
           ELSE e
    [] k = ARROW_RIGHT ->
         IF e.cy < e.numrows /\ e.cx < RowSize(e, e.cy, oob)
           THEN [e EXCEPT !.cx = e.cx + 1]
         ELSE IF e.cy < e.numrows /\ e.cx = RowSize(e, e.cy, oob)
           THEN [e EXCEPT !.cy = e.cy + 1, !.cx = 0]
           ELSE e
    [] k = ARROW_UP ->
         IF e.cy # 0 THEN [e EXCEPT !.cy = e.cy - 1] ELSE e
    [] k = ARROW_DOWN ->
         IF e.cy < e.numrows THEN [e EXCEPT !.cy = e.cy + 1] ELSE e
    [] OTHER -> e

\* the clamp that ends editorMoveCursor
ClampCx(e) ==
  LET rowlen == IF e.cy >= e.numrows THEN 0 ELSE RowSize(e, e.cy, 0)
  IN IF e.cx > rowlen THEN [e EXCEPT !.cx = rowlen] ELSE e

\* void editorMoveCursor(int key)
editorMoveCursor(e, k, oob) == ClampCx(MoveSwitch(e, k, oob))

\* `while (times--) editorMoveCursor(dir)': n further calls.  A call that
\* changes nothing changes nothing ever after, so the loop is cut there.
RECURSIVE RepeatMove(_, _, _)
RepeatMove(e, dir, n) ==
  IF n = 0 THEN e
  ELSE LET e1 == editorMoveCursor(e, dir, 0)
       IN IF e1 = e THEN e ELSE RepeatMove(e1, dir, n - 1)

\* `times--' overflows the int when the loop starts below zero
TimesOverflows(e) == e.screenrows < 0

\* `int times = E.screenrows; while (times--) editorMoveCursor(dir)'.
\* Started at times >= 0 the loop makes times calls.  Started below zero it
\* counts down through INT_MIN, wraps to INT_MAX and makes 2^32 + times
\* calls, taken here as INT_MAX + INT_MAX + (times + 2) since ws_row >= 0
\* keeps times >= -2.
PageLoop(e, dir, times) ==
  IF times >= 0
    THEN RepeatMove(e, dir, times)
    ELSE RepeatMove(RepeatMove(RepeatMove(e, dir, INT_MAX), dir, INT_MAX),
                    dir, times + 2)

\* case PAGE_UP / PAGE_DOWN of editorProcessKeyPress
PageMove(e, c) ==
  LET snap == IF c = PAGE_UP THEN [e EXCEPT !.cy = e.rowoff]
              ELSE [e EXCEPT !.cy = e.rowoff + e.screenrows - 1]
  IN PageLoop(snap, IF c = PAGE_UP THEN ARROW_UP ELSE ARROW_DOWN,
              e.screenrows)

\* case HOME_KEY
HomeMove(e) == [e EXCEPT !.cx = 0]

\* End taking the length of the rendered row in place of the raw one
EndMoveRsize(e) ==
  IF e.cy < e.numrows
    THEN [e EXCEPT !.cx = Len(e.row[e.cy + 1].render)]
    ELSE e

\* case END_KEY
EndMove(e) ==
  IF e.cy < e.numrows THEN [e EXCEPT !.cx = RowSize(e, e.cy, 0)] ELSE e

(***************************************************************************)
(* Viewport controller                                                     *)
(***************************************************************************)
\* editorRowCxToRx reads chars[0 .. cx-1]; the allocation holds size + 1
\* bytes, so cx > size + 1 reads that many bytes past it
BytesReadOutside(e) ==
  IF e.cy < e.numrows /\ e.cx > RowSize(e, e.cy, 0) + 1
    THEN e.cx - (RowSize(e, e.cy, 0) + 1)
    ELSE 0

\* vertical scrolling that follows a cursor below the window one row per
\* call
ScrollRowsByOne(e) ==
  LET e1 == IF e.cy < e.rowoff THEN [e EXCEPT !.rowoff = e.cy] ELSE e
  IN IF e1.cy >= e1.rowoff + e1.screenrows
       THEN [e1 EXCEPT !.rowoff = e1.rowoff + 1]
       ELSE e1

\* the two vertical ifs of editorScroll
ScrollRows(e) ==
  LET e1 == IF e.cy < e.rowoff THEN [e EXCEPT !.rowoff = e.cy] ELSE e
  IN IF e1.cy >= e1.rowoff + e1.screenrows
       THEN [e1 EXCEPT !.rowoff = e1.cy - e1.screenrows + 1]
       ELSE e1

\* the two horizontal ifs of editorScroll
ScrollCols(e) ==
  LET e1 == IF e.rx < e.coloff THEN [e EXCEPT !.coloff = e.rx] ELSE e
  IN IF e1.rx >= e1.coloff + e1.screencols
       THEN [e1 EXCEPT !.coloff = e1.rx - e1.screencols + 1]
       ELSE e1

\* void editorScroll(); past holds the bytes found behind the row's
\* allocation when the column lies outside it
editorScroll(e, past) ==
  LET rx == IF e.cy < e.numrows
              THEN editorRowCxToRx(e.row[e.cy + 1].chars \o <<NUL>> \o past,
                                   e.cx)
              ELSE 0
  IN ScrollCols(ScrollRows([e EXCEPT !.rx = rx]))

(***************************************************************************)
(* Key decoder                                                             *)
(***************************************************************************)
IsDigit(b) == b >= CH_0 /\ b <= CH_9

\* editorReadKey once seq[0] and seq[1] are read and seq[1] is no digit
\* behind '[': the two letter switches, and the final return '\x1b'
KeyOfTwo(s0, s1) ==
  IF s0 = CH_LBRACKET
    THEN CASE s1 = CH_A -> ARROW_UP
           [] s1 = CH_B -> ARROW_DOWN
           [] s1 = CH_C -> ARROW_RIGHT
           [] s1 = CH_D -> ARROW_LEFT
           [] s1 = CH_H -> HOME_KEY
           [] s1 = CH_F -> END_KEY
           [] OTHER -> ESC
  ELSE IF s0 = CH_O
    THEN CASE s1 = CH_H -> HOME_KEY
           [] s1 = CH_F -> END_KEY
           [] OTHER -> ESC
  ELSE ESC

\* the digit switch with the cases of '5' and '6' exchanged
KeyOfThreeSwapped(s1, s2) ==
  IF s2 = CH_TILDE
    THEN CASE s1 = CH_0 + 1 -> HOME_KEY
           [] s1 = CH_0 + 3 -> DEL_KEY
           [] s1 = CH_0 + 4 -> END_KEY
           [] s1 = CH_0 + 5 -> PAGE_DOWN
           [] s1 = CH_0 + 6 -> PAGE_UP
           [] s1 = CH_0 + 7 -> HOME_KEY
           [] s1 = CH_0 + 8 -> END_KEY
           [] OTHER -> ESC
    ELSE ESC

\* editorReadKey once seq[2] is read behind ESC [ digit
KeyOfThree(s1, s2) ==
  IF s2 = CH_TILDE
    THEN CASE s1 = CH_0 + 1 -> HOME_KEY
           [] s1 = CH_0 + 3 -> DEL_KEY
           [] s1 = CH_0 + 4 -> END_KEY
           [] s1 = CH_0 + 5 -> PAGE_UP
           [] s1 = CH_0 + 6 -> PAGE_DOWN
           [] s1 = CH_0 + 7 -> HOME_KEY
           [] s1 = CH_0 + 8 -> END_KEY
           [] OTHER -> ESC
    ELSE ESC

(***************************************************************************)
(* Output: escape sequences, append buffer, editorRefreshScreen            *)
(***************************************************************************)
HIDE_CURSOR == <<27, 91, 63, 50, 53, 108>>   \* "\x1b[?25l"
SHOW_CURSOR == <<27, 91, 63, 50, 53, 104>>   \* "\x1b[?25h"
CURSOR_HOME == <<27, 91, 72>>                \* "\x1b[H"
CLEAR_SCREEN == <<27, 91, 50, 74>>           \* "\x1b[2J"
ERASE_LINE == <<27, 91, 75>>                 \* "\x1b[K"
SGR_INVERT == <<27, 91, 55, 109>>            \* "\x1b[7m"
SGR_RESET == <<27, 91, 109>>                 \* "\x1b[m"
CRLF == <<13, 10>>                           \* "\r\n"
\* "Nexte editor -- version " NEXTE_VERSION
WELCOME ==
  <<78, 101, 120, 116, 101, 32, 101, 100, 105, 116, 111, 114, 32, 45, 45, 32,
    118, 101, 114, 115, 105, 111, 110, 32, 48, 46, 48, 46, 49>>
\* "[No Name]"
NO_NAME == <<91, 78, 111, 32, 78, 97, 109, 101, 93>>
\* "HELP: Ctrl-Q = quit"
HELP_MSG ==
  <<72, 69, 76, 80, 58, 32, 67, 116, 114, 108, 45, 81, 32, 61, 32, 113, 117,
    105, 116>>

\* the decimal digits of n >= 0
RECURSIVE Digits(_)
Digits(n) ==
  IF n < 10 THEN <<CH_0 + n>> ELSE Digits(n \div 10) \o <<CH_0 + (n % 10)>>

\* what "%d" prints
FormatInt(n) == IF n < 0 THEN <<45>> \o Digits(0 - n) ELSE Digits(n)

\* an append that, finding no memory, still copies the first byte
abAppendPartly(ab, s, ok) == IF ok THEN ab \o s ELSE ab \o SubSeq(s, 1, 1)

\* void abAppend(struct abuf *ab, const char *s, int len); ok tells whether
\* realloc gave memory
abAppend(ab, s, ok) == IF ok THEN ab \o s ELSE ab

\* the bytes that the abAppend calls lo..hi add to the buffer, in order,
\* those at the indexes in failed finding no memory
RECURSIVE Appended(_, _, _, _)
Appended(calls, lo, hi, failed) ==
  IF lo > hi THEN <<>>
  ELSE IF lo = hi THEN abAppend(<<>>, calls[lo], lo \notin failed)
  ELSE LET mid == (lo + hi) \div 2
       IN Appended(calls, lo, mid, failed)
            \o Appended(calls, mid + 1, hi, failed)

\* the buffer ab after all the calls
AppendAll(ab, calls, failed) == ab \o Appended(calls, 1, Len(calls), failed)

\* the welcome row without the padding that centres it
WelcomeRowFlushLeft(e) ==
  LET welcomelen == Min(Len(WELCOME), e.screencols)
  IN << <<CH_TILDE>>, SubSeq(WELCOME, 1, welcomelen) >>

\* the abAppend calls of the welcome row
WelcomeRow(e) ==
  LET welcomelen == Min(Len(WELCOME), e.screencols)
      padding == (e.screencols - welcomelen) \div 2
  IN (IF padding # 0 THEN << <<CH_TILDE>> >> ELSE <<>>)
       \o [i \in 1..(padding - 1) |-> <<SPACE>>]
       \o << SubSeq(WELCOME, 1, welcomelen) >>

\* the row drawn from its first column whatever the column offset
RowSliceUnscrolled(e, filerow) ==
  LET render == e.row[filerow + 1].render
      len == IF Len(render) > e.screencols THEN e.screencols ELSE Len(render)
  IN SubSeq(render, 1, len)

\* &E.row[filerow].render[E.coloff] with the clamped len
RowSlice(e, filerow) ==
  LET render == e.row[filerow + 1].render
      len0 == Len(render) - e.coloff
      len1 == IF len0 < 0 THEN 0 ELSE len0
      len == IF len1 > e.screencols THEN e.screencols ELSE len1
  IN SubSeq(render, e.coloff + 1, e.coloff + len)

\* the row drawn as before the status bar was there: no "\r\n" behind
\* the last one
DrawRowLastUnbroken(e, y) ==
  LET filerow == y + e.rowoff
  IN (IF filerow >= e.numrows
        THEN IF e.numrows = 0 /\ filerow = e.screenrows \div 3
               THEN WelcomeRow(e)
               ELSE << <<CH_TILDE>> >>
        ELSE << RowSlice(e, filerow) >>)
       \o (IF y < e.screenrows - 1 THEN <<ERASE_LINE, CRLF>>
                                   ELSE <<ERASE_LINE>>)

\* the abAppend calls of editorDrawRows for screen row y
DrawRow(e, y) ==
  LET filerow == y + e.rowoff
  IN (IF filerow >= e.numrows
        THEN IF e.numrows = 0 /\ filerow = e.screenrows \div 3
               THEN WelcomeRow(e)
               ELSE << <<CH_TILDE>> >>
        ELSE << RowSlice(e, filerow) >>)
       \o <<ERASE_LINE, CRLF>>

\* void editorDrawRows(struct abuf *ab): the abAppend calls from row y on
RECURSIVE DrawRowsFrom(_, _)
DrawRowsFrom(e, y) ==
  IF y < e.screenrows THEN DrawRow(e, y) \o DrawRowsFrom(e, y + 1) ELSE <<>>

editorDrawRows(e) == DrawRowsFrom(e, 0)

\* the padding loop placing the right segment one column late
RECURSIVE StatusPadLate(_, _, _)
StatusPadLate(e, len, rstatus) ==
  IF len < e.screencols
    THEN IF e.screencols - len = Len(rstatus) - 1
           THEN <<rstatus>>
           ELSE << <<SPACE>> >> \o StatusPadLate(e, len + 1, rstatus)
    ELSE <<>>

\* the padding loop of editorDrawStatusBar, entered with len columns used
RECURSIVE StatusPad(_, _, _)
StatusPad(e, len, rstatus) ==
  IF len < e.screencols
    THEN IF e.screencols - len = Len(rstatus)
           THEN <<rstatus>>
           ELSE << <<SPACE>> >> \o StatusPad(e, len + 1, rstatus)
    ELSE <<>>

\* void editorDrawStatusBar(struct abuf *ab)
editorDrawStatusBar(e) ==
  LET name == IF e.filename # <<>> THEN e.filename ELSE NO_NAME
      status == SubSeq(name, 1, Min(Len(name), 20)) \o <<SPACE, 45, SPACE>>
                  \o FormatInt(e.numrows) \o <<SPACE, 108, 105, 110, 101, 115>>
      rstatus == FormatInt(e.cy + 1) \o <<47>> \o FormatInt(e.numrows)
      len == Min(Len(status), e.screencols)
  IN <<SGR_INVERT, SubSeq(status, 1, len)>>
       \o StatusPad(e, len, rstatus)
       \o <<SGR_RESET, CRLF>>

\* void editorDrawMessageBar(struct abuf *ab); fresh tells whether
\* time(NULL) - E.statusmsg_time < 5
editorDrawMessageBar(e, fresh) ==
  LET msglen == Min(Len(e.statusmsg), e.screencols)
  IN <<ERASE_LINE>>
       \o (IF msglen # 0 /\ fresh
             THEN << SubSeq(e.statusmsg, 1, msglen) >>
             ELSE <<>>)

\* snprintf(buf, sizeof(buf), "\x1b[%d;%dH", ...)
CursorPosition(e) ==
  <<ESC, CH_LBRACKET>> \o FormatInt((e.cy - e.rowoff) + 1) \o <<59>>
    \o FormatInt((e.rx - e.coloff) + 1) \o <<CH_H>>

\* the refresh with the status bar drawn ahead of the rows
RefreshAppendsBarFirst(e, fresh) ==
  <<HIDE_CURSOR, CURSOR_HOME>>
    \o editorDrawStatusBar(e)
    \o editorDrawRows(e)
    \o editorDrawMessageBar(e, fresh)
    \o <<CursorPosition(e), SHOW_CURSOR>>

\* the abAppend calls of editorRefreshScreen, in order
RefreshAppends(e, fresh) ==
  <<HIDE_CURSOR, CURSOR_HOME>>
    \o editorDrawRows(e)
    \o editorDrawStatusBar(e)
    \o editorDrawMessageBar(e, fresh)
    \o <<CursorPosition(e), SHOW_CURSOR>>

\* the abAppend calls of a refresh that find no memory: none, or up to k
\* calls in a row out of the n
FailSets(n, k) ==
  {{}} \cup {{j \in 1..n : i <= j /\ j < i + len} : i \in 1..n, len \in 1..k}

(***************************************************************************)
(* State                                                                   *)
(***************************************************************************)
VARIABLES
  E,        \* struct editorConfig E: cx, cy, rx, rowoff, coloff, screenrows,
            \* screencols, numrows, row, filename, statusmsg
  pc,       \* position of the process in main's loop and in editorReadKey
  key,      \* the key editorReadKey returned to editorProcessKeyPress
  seq,      \* char seq[3] of editorReadKey: the follow bytes read so far
  rd,       \* outcome of the latest read(): return value, byte, errno
  attempts, \* read() calls of the current decode made after the ESC byte
  status,   \* exit status, once pc = "exited"
  probe,    \* a single erow handed to the tab renderer on its own
  out,      \* payloads of the write(STDOUT_FILENO, ...) calls of the latest
            \* step, in order
  enomem,   \* abAppend calls of the latest refresh for which realloc
            \* returned NULL
  termios,  \* the terminal: raw, whether the raw attributes are in force;
            \* atexit, whether disable_raw_mode is registered; restores,
            \* the calls of disable_raw_mode made so far
  stdin     \* the terminal's input where it is fixed in advance: typed, the
            \* bytes; pos, how many of them read() has taken; start, pos at
            \* the call of editorReadKey

vars == <<E, pc, key, seq, rd, attempts, status, probe, out, enomem, termios,
          stdin>>

(***************************************************************************)
(* Inputs                                                                  *)
(***************************************************************************)
\* bytes the terminal may send
InputBytes ==
  {ESC, CTRL_Q, CH_LBRACKET, CH_O, CH_TILDE, CH_A, CH_B, CH_C, CH_D, CH_F,
   CH_H, CH_x} \cup (CH_0..CH_9)

\* what one read(STDIN_FILENO, &c, 1) may return under VMIN = 0, VTIME = 1:
\* a byte, a timeout (0), -1 with EAGAIN, -1 with another errno
ReadResults ==
  {[n |-> 1, b |-> b, errno |-> 0] : b \in InputBytes}
    \cup {[n |-> 0, b |-> 0, errno |-> 0],
          [n |-> 0 - 1, b |-> 0, errno |-> EAGAIN],
          [n |-> 0 - 1, b |-> 0, errno |-> EIO]}

\* the terminal behind enable_raw_mode: raw attributes in force, the
\* restoring handler registered, not yet called
RawMode == [raw |-> TRUE, atexit |-> TRUE, restores |-> 0]

\* the input of a terminal whose bytes are not fixed in advance: any byte
\* may be the next
NoStream == [typed |-> <<>>, pos |-> 0 - 1, start |-> 0 - 1]

\* what read(STDIN_FILENO, &c, 1) may return in this state: with the input
\* fixed in advance, its next byte if there is one, or no byte
read ==
  IF stdin.pos < 0 THEN ReadResults
  ELSE {r \in ReadResults :
          r.n = 1 => /\ stdin.pos < Len(stdin.typed)
                     /\ r.b = stdin.typed[stdin.pos + 1]}

\* the input behind a read() that returned r: a byte returned is taken
Taken(r) ==
  IF stdin.pos >= 0 /\ r.n = 1 THEN [stdin EXCEPT !.pos = @ + 1] ELSE stdin

\* value of rd while no decode is under way
NoRead == [n |-> 1, b |-> 0, errno |-> 0]

\* the files main may be started on: no file, and line sequences with
\* rows shorter, longer and empty, with and without tabs
Files ==
  { <<>>,
    << <<CH_a, CH_a>> >>,
    << <<CH_a, TAB>>, <<>> >>,
    << <<>>, <<CH_a, CH_a, CH_a>>, <<TAB>> >> }

\* values an int read outside the row array may hold
GarbageInts == {0 - 1, 0, 1}

\* bytes found behind a row's allocation
GarbageBytes == {TAB, CH_x}

NoProbe == [chars |-> <<>>, render |-> <<>>, cx |-> 0, rx |-> 0, step |-> "off"]

(***************************************************************************)
(* main up to its loop: initEditor, editorOpen                             *)
(***************************************************************************)
\* argv[1] for the file main is started on, empty for a start without
\* argument (E.filename stays NULL): "notes.txt" for the files of up to two
\* lines, a name of 27 bytes for the longer one
FileName(file) ==
  IF Len(file) = 0 THEN <<>>
  ELSE IF Len(file) <= 2
    THEN <<110, 111, 116, 101, 115, 46, 116, 120, 116>>
    ELSE <<97, 45, 114, 97, 116, 104, 101, 114, 45, 108, 111, 110, 103, 45,
           102, 105, 108, 101, 45, 110, 97, 109, 101, 46, 116, 120, 116>>

\* initEditor with the window size ws_row x ws_col that ioctl(TIOCGWINSZ)
\* reports (ws_col = 0 takes the fallback instead), then editorOpen(file)
\* and editorSetStatusMessage("HELP: Ctrl-Q = quit")
initEditor(ws_row, ws_col, file) ==
  [cx |-> 0, cy |-> 0, rx |-> 0, rowoff |-> 0, coloff |-> 0,
   screenrows |-> ws_row - 2, screencols |-> ws_col,
   numrows |-> Len(file),
   row |-> [i \in 1..Len(file) |-> editorAppendRow(file[i])],
   filename |-> FileName(file),
   statusmsg |-> HELP_MSG]

Init ==
  /\ \E ws_row \in 1..MaxWsRow, ws_col \in 1..MaxWsCol, file \in Files :
       E = initEditor(ws_row, ws_col, file)
  /\ pc = "refresh"
  /\ key = 0
  /\ seq = <<>>
  /\ rd = NoRead
  /\ attempts = 0
  /\ status = 0
  /\ probe = NoProbe
  /\ out = <<>>
  /\ enomem = 0
  /\ termios = RawMode
  /\ stdin = NoStream

\* the model follows the cursor only inside these caps; a row of the first
\* window is always inside
Bounded(e) ==
  /\ e.cy <= MaxCy \/ e.cy < e.screenrows
  /\ e.cx >= 0 - MaxNegCx

(***************************************************************************)
(* editorRefreshScreen                                                     *)
(***************************************************************************)
\* editorScroll, the abAppend calls, then the one write of ab.b.  The wall
\* clock decides whether the status message is still fresh; any of the
\* abAppend calls may find no memory.
editorRefreshScreen(e, fresh) ==
  LET calls == RefreshAppends(e, fresh)
  IN \E failed \in FailSets(Len(calls), MaxAllocFail) :
       /\ E' = e
       /\ out' = << AppendAll(<<>>, calls, failed) >>
       /\ enomem' = Cardinality(failed)

Refresh ==
  /\ pc = "refresh"
  /\ \E past \in [1..BytesReadOutside(E) -> GarbageBytes], fresh \in BOOLEAN :
       editorRefreshScreen(editorScroll(E, past), fresh)
  /\ pc' = "read0"
  /\ UNCHANGED <<key, seq, rd, attempts, status, probe, termios, stdin>>

\* the read behind the row's allocation faults
RefreshFault ==
  /\ pc = "refresh"
  /\ BytesReadOutside(E) > 0
  /\ pc' = "crashed"
  /\ UNCHANGED <<E, key, seq, rd, attempts, status, probe, out, enomem,
                 termios, stdin>>

(***************************************************************************)
(* editorReadKey                                                           *)
(***************************************************************************)
\* exit(code) behind the writes `written' of the caller, the terminal being
\* t: the handler registered with atexit, disable_raw_mode, puts
\* E.orig_termios back; when its tcsetattr fails it calls die("tcsetattr"),
\* which writes its two sequences and calls exit(1) from inside exit: the
\* process ends with status 1 or is killed, as the C library has it
exit(code, written, t) ==
  IF ~t.atexit
    THEN /\ out' = written
         /\ pc' = "exited"
         /\ status' = code
         /\ termios' = t
    ELSE \/ /\ termios' = [t EXCEPT !.raw = FALSE, !.restores = @ + 1]
            /\ out' = written
            /\ pc' = "exited"
            /\ status' = code
         \/ /\ termios' = [t EXCEPT !.restores = @ + 1]
            /\ out' = written \o <<CLEAR_SCREEN, CURSOR_HOME>>
            /\ \/ pc' = "exited" /\ status' = 1
               \/ pc' = "crashed" /\ UNCHANGED status

\* void die(const char *s)
die == exit(1, <<CLEAR_SCREEN, CURSOR_HOME>>, termios)

\* return k from editorReadKey; its locals go out of scope
Return(k) == pc' = "dispatch" /\ key' = k /\ seq' = <<>>

\* the first-byte loop without the errno test: every -1 is fatal
ReadFirstNoErrno ==
  /\ pc = "read0"
  /\ \E r \in read :
       /\ rd' = r
       /\ stdin' = Taken(r)
       /\ IF r.n = 1
            THEN /\ IF r.b = ESC
                      THEN pc' = "read1" /\ UNCHANGED <<key, seq>>
                      ELSE Return(r.b)
                 /\ out' = <<>>
                 /\ UNCHANGED <<status, termios>>
          ELSE IF r.n = 0 - 1
            THEN die /\ UNCHANGED <<key, seq>>
            ELSE out' = <<>> /\ UNCHANGED <<pc, key, seq, status, termios>>
  /\ enomem' = 0
  /\ UNCHANGED <<E, attempts, probe>>

\* the while loop on the first byte
ReadFirst ==
  /\ pc = "read0"
  /\ \E r \in read :
       /\ rd' = r
       /\ stdin' = Taken(r)
       /\ IF r.n = 1
            THEN /\ IF r.b = ESC
                      THEN pc' = "read1" /\ UNCHANGED <<key, seq>>
                      ELSE Return(r.b)
                 /\ out' = <<>>
                 /\ UNCHANGED <<status, termios>>
          ELSE IF r.n = 0 - 1 /\ r.errno # EAGAIN
            THEN die /\ UNCHANGED <<key, seq>>
            ELSE out' = <<>> /\ UNCHANGED <<pc, key, seq, status, termios>>
  /\ enomem' = 0
  /\ UNCHANGED <<E, attempts, probe>>

\* the first follow read retried on a short read, as the first byte is
ReadSeq0Retry ==
  /\ pc = "read1"
  /\ \E r \in read :
       /\ rd' = r
       /\ stdin' = Taken(r)
       /\ IF r.n # 1
            THEN UNCHANGED <<pc, key, seq>>
            ELSE pc' = "read2" /\ seq' = <<r.b>> /\ UNCHANGED key
  /\ attempts' = IF attempts < 4 THEN attempts + 1 ELSE attempts
  /\ UNCHANGED <<E, status, probe, out, enomem, termios>>

\* read(STDIN_FILENO, &seq[0], 1)
ReadSeq0 ==
  /\ pc = "read1"
  /\ \E r \in read :
       /\ rd' = r
       /\ stdin' = Taken(r)
       /\ IF r.n # 1
            THEN Return(ESC)
            ELSE pc' = "read2" /\ seq' = <<r.b>> /\ UNCHANGED key
  /\ attempts' = attempts + 1
  /\ UNCHANGED <<E, status, probe, out, enomem, termios>>

\* the second follow read with the follow bytes of a sequence that is not
\* recognised left in the input
ReadSeq1PutsBack ==
  /\ pc = "read2"
  /\ \E r \in read :
       /\ rd' = r
       /\ IF r.n # 1
            THEN Return(ESC) /\ stdin' = Taken(r)
          ELSE IF seq[1] = CH_LBRACKET /\ IsDigit(r.b)
            THEN /\ pc' = "read3" /\ seq' = <<seq[1], r.b>> /\ UNCHANGED key
                 /\ stdin' = Taken(r)
            ELSE /\ Return(KeyOfTwo(seq[1], r.b))
                 /\ stdin' = IF KeyOfTwo(seq[1], r.b) = ESC /\ stdin.pos >= 0
                                THEN [stdin EXCEPT !.pos = @ - 1]
                                ELSE Taken(r)
  /\ attempts' = attempts + 1
  /\ UNCHANGED <<E, status, probe, out, enomem, termios>>

\* read(STDIN_FILENO, &seq[1], 1) and the decision on two follow bytes
ReadSeq1 ==
  /\ pc = "read2"
  /\ \E r \in read :
       /\ rd' = r
       /\ stdin' = Taken(r)
       /\ IF r.n # 1
            THEN Return(ESC)
          ELSE IF seq[1] = CH_LBRACKET /\ IsDigit(r.b)
            THEN pc' = "read3" /\ seq' = <<seq[1], r.b>> /\ UNCHANGED key
            ELSE Return(KeyOfTwo(seq[1], r.b))
  /\ attempts' = attempts + 1
  /\ UNCHANGED <<E, status, probe, out, enomem, termios>>

\* read(STDIN_FILENO, &seq[2], 1) behind ESC [ digit
ReadSeq2 ==
  /\ pc = "read3"
  /\ \E r \in read :
       /\ rd' = r
       /\ stdin' = Taken(r)
       /\ IF r.n # 1
            THEN Return(ESC)
            ELSE Return(KeyOfThree(seq[2], r.b))
  /\ attempts' = attempts + 1
  /\ UNCHANGED <<E, status, probe, out, enomem, termios>>

(***************************************************************************)
(* editorProcessKeyPress: the switch on the key                            *)
(***************************************************************************)
\* break out of the switch, back to the top of main's loop
BackToLoop(e) ==
  /\ Bounded(e)
  /\ E' = e
  /\ pc' = "refresh"
  /\ key' = 0
  /\ rd' = NoRead
  /\ attempts' = 0
  /\ UNCHANGED <<seq, status, probe, out, enomem, termios, stdin>>

\* the quit case taken for the Escape key as well
KeyQuitOnEscape ==
  /\ pc = "dispatch"
  /\ key \in {CTRL_Q, ESC}
  /\ exit(0, <<CLEAR_SCREEN, CURSOR_HOME>>, termios)
  /\ UNCHANGED <<E, key, seq, rd, attempts, probe, enomem, stdin>>

\* case CTRL_KEY('q')
KeyQuit ==
  /\ pc = "dispatch"
  /\ key = CTRL_Q
  /\ exit(0, <<CLEAR_SCREEN, CURSOR_HOME>>, termios)
  /\ UNCHANGED <<E, key, seq, rd, attempts, probe, enomem, stdin>>

KeyHome ==
  /\ pc = "dispatch"
  /\ key = HOME_KEY
  /\ BackToLoop(HomeMove(E))

KeyEnd ==
  /\ pc = "dispatch"
  /\ key = END_KEY
  /\ BackToLoop(EndMove(E))

KeyPage ==
  /\ pc = "dispatch"
  /\ key \in {PAGE_UP, PAGE_DOWN}
  /\ BackToLoop(PageMove(E, key))

\* the overflowing `times--' lets the loop run on for ever
KeyPageHang ==
  /\ pc = "dispatch"
  /\ key \in {PAGE_UP, PAGE_DOWN}
  /\ TimesOverflows(E)
  /\ Bounded(PageMove(E, key))
  /\ E' = PageMove(E, key)
  /\ pc' = "hung"
  /\ UNCHANGED <<key, seq, rd, attempts, status, probe, out, enomem, termios,
                 stdin>>

KeyArrow ==
  /\ pc = "dispatch"
  /\ key \in {ARROW_UP, ARROW_DOWN, ARROW_LEFT, ARROW_RIGHT}
  /\ IF key = ARROW_LEFT /\ LeftReadsOutside(E)
       THEN \E oob \in GarbageInts : BackToLoop(editorMoveCursor(E, key, oob))
       ELSE BackToLoop(editorMoveCursor(E, key, 0))

\* the read outside the row array faults
KeyArrowFault ==
  /\ pc = "dispatch"
  /\ key = ARROW_LEFT
  /\ LeftReadsOutside(E)
  /\ pc' = "crashed"
  /\ UNCHANGED <<E, key, seq, rd, attempts, status, probe, out, enomem,
                 termios, stdin>>

\* the switch with a case for Delete that steps to the right
KeyOtherDelete ==
  /\ pc = "dispatch"
  /\ key \notin {CTRL_Q, HOME_KEY, END_KEY, PAGE_UP, PAGE_DOWN,
                 ARROW_UP, ARROW_DOWN, ARROW_LEFT, ARROW_RIGHT}
  /\ BackToLoop(IF key = DEL_KEY
                  THEN editorMoveCursor(E, ARROW_RIGHT, 0)
                  ELSE E)

\* no case of the switch matches
KeyOther ==
  /\ pc = "dispatch"
  /\ key \notin {CTRL_Q, HOME_KEY, END_KEY, PAGE_UP, PAGE_DOWN,
                 ARROW_UP, ARROW_DOWN, ARROW_LEFT, ARROW_RIGHT}
  /\ BackToLoop(E)

Next ==
  \/ Refresh \/ RefreshFault
  \/ ReadFirst \/ ReadSeq0 \/ ReadSeq1 \/ ReadSeq2
  \/ KeyQuit \/ KeyHome \/ KeyEnd \/ KeyPage \/ KeyPageHang
  \/ KeyArrow \/ KeyArrowFault \/ KeyOther

Spec == Init /\ [][Next]_vars

\* VMIN = 0, VTIME = 1: every read() returns within a tenth of a second, so
\* a decode that is behind its ESC byte takes its next read
FairSpec ==
  Spec /\ WF_vars(ReadSeq0) /\ WF_vars(ReadSeq1) /\ WF_vars(ReadSeq2)

(***************************************************************************)
(* main from its first statement: enable_raw_mode, initEditor, editorOpen  *)
(***************************************************************************)
\* struct editorConfig E as the loader leaves it, all zero
ZeroE ==
  [cx |-> 0, cy |-> 0, rx |-> 0, rowoff |-> 0, coloff |-> 0,
   screenrows |-> 0, screencols |-> 0, numrows |-> 0, row |-> <<>>,
   filename |-> <<>>, statusmsg |-> <<>>]

\* "\x1b[999C\x1b[999B" and "\x1b[6n" of the fallback of getWindowSize
FAR_CORNER == <<27, 91, 57, 57, 57, 67, 27, 91, 57, 57, 57, 66>>
CURSOR_QUERY == <<27, 91, 54, 110>>

\* int getWindowSize(int *rows, int *cols): the value returned, the size
\* stored and the writes made; the ioctl answers, or the fallback is taken
\* and its first write fails, or the write of getCursorPosition fails, or
\* the terminal's report does not parse, or it parses
getWindowSize ==
  {[ret |-> 0, rows |-> r, cols |-> c, written |-> <<>>] :
     r \in 1..MaxWsRow, c \in 1..MaxWsCol}
    \cup {[ret |-> 0 - 1, rows |-> 0, cols |-> 0, written |-> w] :
            w \in {<<>>, <<FAR_CORNER>>, <<FAR_CORNER, CURSOR_QUERY, CRLF>>}}
    \cup {[ret |-> 0, rows |-> r, cols |-> c,
           written |-> <<FAR_CORNER, CURSOR_QUERY, CRLF>>] :
            r \in 1..MaxWsRow, c \in 1..MaxWsCol}

\* void editorOpen(char *filename) where fopen succeeds
editorOpen(e, file) ==
  [e EXCEPT !.filename = FileName(file),
            !.numrows = Len(file),
            !.row = [i \in 1..Len(file) |-> editorAppendRow(file[i])]]

\* void editorSetStatusMessage(const char *fmt, ...)
editorSetStatusMessage(e, msg) == [e EXCEPT !.statusmsg = msg]

InitStart ==
  /\ E = ZeroE
  /\ pc = "start"
  /\ key = 0
  /\ seq = <<>>
  /\ rd = NoRead
  /\ attempts = 0
  /\ status = 0
  /\ probe = NoProbe
  /\ out = <<>>
  /\ enomem = 0
  /\ termios = [raw |-> FALSE, atexit |-> FALSE, restores |-> 0]
  /\ stdin = NoStream

\* void enable_raw_mode(): tcgetattr fails and die() is called with no
\* handler registered; or the handler is registered and tcsetattr fails;
\* or the raw attributes are in force
enable_raw_mode ==
  /\ pc = "start"
  /\ \/ die
     \/ exit(1, <<CLEAR_SCREEN, CURSOR_HOME>>,
             [termios EXCEPT !.atexit = TRUE])
     \/ /\ termios' = RawMode
        /\ pc' = "init"
        /\ UNCHANGED <<status, out>>
  /\ UNCHANGED <<E, key, seq, rd, attempts, probe, enomem, stdin>>

\* main: initEditor()
main_initEditor ==
  /\ pc = "init"
  /\ \E ws \in getWindowSize :
       IF ws.ret = 0 - 1
         THEN /\ exit(1, ws.written \o <<CLEAR_SCREEN, CURSOR_HOME>>, termios)
              /\ UNCHANGED E
         ELSE /\ E' = [ZeroE EXCEPT !.screenrows = ws.rows - 2,
                                    !.screencols = ws.cols]
              /\ out' = ws.written
              /\ pc' = "open"
              /\ UNCHANGED <<status, termios>>
  /\ UNCHANGED <<key, seq, rd, attempts, probe, enomem, stdin>>

\* main: if (argc >= 2) editorOpen(argv[1]), where fopen may fail, and
\* editorSetStatusMessage("HELP: Ctrl-Q = quit")
main_editorOpen ==
  /\ pc = "open"
  /\ \E file \in Files :
       \/ /\ E' = editorSetStatusMessage(editorOpen(E, file), HELP_MSG)
          /\ out' = <<>>
          /\ pc' = "refresh"
          /\ UNCHANGED <<status, termios>>
       \/ /\ Len(file) > 0
          /\ E' = [E EXCEPT !.filename = FileName(file)]
          /\ die
  /\ UNCHANGED <<key, seq, rd, attempts, probe, enomem, stdin>>

NextStart == enable_raw_mode \/ main_initEditor \/ main_editorOpen \/ Next

SpecStart == InitStart /\ [][NextStart]_vars

(***************************************************************************)
(* The status bar on its own: one call of editorDrawStatusBar              *)
(***************************************************************************)
MaxBarCols == 34

\* any file, any row of the cursor the loop can leave it on, and a window
\* of up to MaxBarCols columns: narrower than the left segment, wide
\* enough for it alone, wide enough for both segments
InitStatus ==
  /\ \E ws_col \in 1..MaxBarCols, file \in Files, cy \in 0..MaxCy :
       E = [initEditor(MaxWsRow, ws_col, file) EXCEPT !.cy = cy]
  /\ pc = "bar"
  /\ key = 0
  /\ seq = <<>>
  /\ rd = NoRead
  /\ attempts = 0
  /\ status = 0
  /\ probe = NoProbe
  /\ out = <<>>
  /\ enomem = 0
  /\ termios = RawMode
  /\ stdin = NoStream

\* editorDrawStatusBar(&ab) on an empty buffer, and the buffer written
ProbeStatusBar ==
  /\ pc = "bar"
  /\ LET calls == editorDrawStatusBar(E)
     IN \E failed \in FailSets(Len(calls), MaxAllocFail) :
          /\ out' = << AppendAll(<<>>, calls, failed) >>
          /\ enomem' = Cardinality(failed)
  /\ pc' = "barred"
  /\ UNCHANGED <<E, key, seq, rd, attempts, status, probe, termios, stdin>>

NextStatus == ProbeStatusBar

SpecStatus == InitStatus /\ [][NextStatus]_vars

(***************************************************************************)
(* The key decoder on its own: editorReadKey called again and again on an  *)
(* input fixed in advance                                                  *)
(***************************************************************************)
MaxTyped == 5

\* the bytes typed: ESC, the two introducers, a digit, the tilde, a letter
\* that ends a sequence
TypedBytes == {ESC, CH_LBRACKET, CH_O, CH_0 + 5, CH_TILDE, CH_H}

InitDecode ==
  /\ \E typed \in UNION {[1..k -> TypedBytes] : k \in 0..MaxTyped} :
       stdin = [typed |-> typed, pos |-> 0, start |-> 0]
  /\ E = initEditor(MaxWsRow, MaxWsCol, <<>>)
  /\ pc = "read0"
  /\ key = 0
  /\ seq = <<>>
  /\ rd = NoRead
  /\ attempts = 0
  /\ status = 0
  /\ probe = NoProbe
  /\ out = <<>>
  /\ enomem = 0
  /\ termios = RawMode

\* the caller has the key and calls editorReadKey() again
DecodeAgain ==
  /\ pc = "dispatch"
  /\ pc' = "read0"
  /\ key' = 0
  /\ rd' = NoRead
  /\ attempts' = 0
  /\ stdin' = [stdin EXCEPT !.start = stdin.pos]
  /\ UNCHANGED <<E, seq, status, probe, out, enomem, termios>>

NextDecode == ReadFirst \/ ReadSeq0 \/ ReadSeq1 \/ ReadSeq2 \/ DecodeAgain

SpecDecode == InitDecode /\ [][NextDecode]_vars

(***************************************************************************)
(* The editor started without a file on a terminal of 24 rows, 80 columns  *)
(***************************************************************************)
InitBanner ==
  /\ E = initEditor(24, 80, <<>>)
  /\ pc = "refresh"
  /\ key = 0
  /\ seq = <<>>
  /\ rd = NoRead
  /\ attempts = 0
  /\ status = 0
  /\ probe = NoProbe
  /\ out = <<>>
  /\ enomem = 0
  /\ termios = RawMode
  /\ stdin = NoStream

\* main's loop; with no row in the store editorScroll reads no row, and the
\* text area is 22 rows high, so RefreshFault and KeyPageHang have no step
NextBanner ==
  \/ Refresh
  \/ ReadFirst \/ ReadSeq0 \/ ReadSeq1 \/ ReadSeq2
  \/ KeyQuit \/ KeyHome \/ KeyEnd \/ KeyPage
  \/ KeyArrow \/ KeyArrowFault \/ KeyOther

SpecBanner == InitBanner /\ [][NextBanner]_vars

(***************************************************************************)
(* The tab renderer on its own: one row, one column                        *)
(***************************************************************************)
RowBytes == {TAB, CH_a, CH_x}

SeqsUpTo(S, n) == UNION {[1..k -> S] : k \in 0..n}

InitRow ==
  /\ \E chars \in SeqsUpTo(RowBytes, MaxLen) :
       probe = [chars |-> chars, render |-> <<>>, cx |-> 0, rx |-> 0,
                step |-> "new"]
  /\ E = initEditor(MaxWsRow, MaxWsCol, <<>>)
  /\ pc = "off"
  /\ key = 0
  /\ seq = <<>>
  /\ rd = NoRead
  /\ attempts = 0
  /\ status = 0
  /\ out = <<>>
  /\ enomem = 0
  /\ termios = RawMode
  /\ stdin = NoStream

ProbeUpdateRow ==
  /\ probe.step = "new"
  /\ probe' = [probe EXCEPT !.render = editorUpdateRow(probe.chars),
                            !.step = "rendered"]
  /\ UNCHANGED <<E, pc, key, seq, rd, attempts, status, out, enomem, termios,
                 stdin>>

ProbeCxToRx ==
  /\ probe.step = "rendered"
  /\ \E cx \in 0..Len(probe.chars) :
       probe' = [probe EXCEPT !.cx = cx,
                             !.rx = editorRowCxToRx(probe.chars, cx),
                             !.step = "mapped"]
  /\ UNCHANGED <<E, pc, key, seq, rd, attempts, status, out, enomem, termios,
                 stdin>>

NextRow == ProbeUpdateRow \/ ProbeCxToRx

SpecRow == InitRow /\ [][NextRow]_vars

(***************************************************************************)
(* editorScroll on its own: any cursor, any offsets, called twice          *)
(***************************************************************************)
\* cursor columns and offsets handed to editorScroll
MaxCx == 4
MaxOff == 9

InitScroll ==
  /\ \E ws_row \in 1..MaxWsRow, ws_col \in 1..MaxWsCol, file \in Files,
        cy \in 0..MaxCy, cx \in (0 - MaxNegCx)..MaxCx,
        rowoff \in 0..(MaxCy + 1), coloff \in 0..MaxOff :
       LET e == [initEditor(ws_row, ws_col, file) EXCEPT
                   !.cy = cy, !.cx = cx, !.rowoff = rowoff, !.coloff = coloff]
       IN /\ E = e
          /\ \E past \in [1..BytesReadOutside(e) -> GarbageBytes] :
               probe = [NoProbe EXCEPT !.chars = past, !.step = "memory"]
  /\ pc = "scroll"
  /\ key = 0
  /\ seq = <<>>
  /\ rd = NoRead
  /\ attempts = 0
  /\ status = 0
  /\ out = <<>>
  /\ enomem = 0
  /\ termios = RawMode
  /\ stdin = NoStream

\* the first call; probe.chars holds the bytes behind the row's allocation
ProbeScroll ==
  /\ pc = "scroll"
  /\ E' = editorScroll(E, probe.chars)
  /\ pc' = "scrolled"
  /\ UNCHANGED <<key, seq, rd, attempts, status, probe, out, enomem, termios,
                 stdin>>

\* the second call, on the same memory
ProbeScrollAgain ==
  /\ pc = "scrolled"
  /\ E' = editorScroll(E, probe.chars)
  /\ pc' = "rescrolled"
  /\ UNCHANGED <<key, seq, rd, attempts, status, probe, out, enomem, termios,
                 stdin>>

\* the read behind the row's allocation faults
ProbeScrollFault ==
  /\ pc \in {"scroll", "scrolled"}
  /\ BytesReadOutside(E) > 0
  /\ pc' = "crashed"
  /\ UNCHANGED <<E, key, seq, rd, attempts, status, probe, out, enomem,
                 termios, stdin>>

NextScroll == ProbeScroll \/ ProbeScrollAgain \/ ProbeScrollFault

SpecScroll == InitScroll /\ [][NextScroll]_vars

(***************************************************************************)
(* C4: for every row and every column c in 0..size, editorRowCxToRx(r, c)  *)
(* is the render index at which editorUpdateRow starts the raw byte c, and *)
(* is rsize when c = size.                                                 *)
(***************************************************************************)
C4_CxToRxAligned ==
  probe.step = "mapped" =>
    /\ probe.rx = RenderStart(probe.chars, probe.cx)
    /\ probe.cx = Len(probe.chars) => probe.rx = Len(probe.render)
    /\ (probe.cx < Len(probe.chars) /\ probe.chars[probe.cx + 1] # TAB) =>
         probe.render[probe.rx + 1] = probe.chars[probe.cx + 1]

\* a column behind a tab that follows eight plain bytes: the tab is 8 wide
C4_Witness ==
  /\ probe.step = "mapped"
  /\ Len(probe.chars) = 9
  /\ probe.chars[9] = TAB
  /\ probe.cx = 9
  /\ probe.rx = 16

(***************************************************************************)
(* Properties of the loop                                                  *)
(***************************************************************************)
\* the process is inside main's loop
Running == pc \in {"refresh", "read0", "read1", "read2", "read3", "dispatch"}

\* editorScroll has run and no key was dispatched since
Scrolled == pc \in {"read0", "read1", "read2", "read3", "dispatch"}

\* the decode has read its ESC byte and is reading follow bytes
FollowPcs == {"read1", "read2", "read3"}

\* raw length of the row at C index i, 0 where there is no such row
RawLen(e, i) == RowSize(e, i, 0)

\* C1: on a text area of at least one row and one column, the cursor row
\* stays within 0 <= row <= RowStore.length after any sequence of keys.
C1_RowInRange ==
  (E.screenrows >= 1 /\ E.screencols >= 1) =>
    (E.cy >= 0 /\ E.cy <= E.numrows)

\* C2: the cursor column is within 0 <= col <= raw length on an existing
\* row and is 0 on the past-last row.
C2_ColInRange ==
  Running =>
    /\ E.cy < E.numrows => (E.cx >= 0 /\ E.cx <= RawLen(E, E.cy))
    /\ E.cy = E.numrows => E.cx = 0

\* C3: right after editorScroll the cursor's rendered position is inside
\* the window: rowoff <= cy < rowoff + screenrows and
\* coloff <= rx < coloff + screencols.
C3_CursorInWindow ==
  Scrolled =>
    /\ E.rowoff <= E.cy /\ E.cy < E.rowoff + E.screenrows
    /\ E.coloff <= E.rx /\ E.rx < E.coloff + E.screencols

(***************************************************************************)
(* Properties of the key decoder                                           *)
(***************************************************************************)
\* the key the decoding table gives for the follow bytes f of an ESC byte
TableKey(f) ==
  IF Len(f) = 3
    THEN IF f[1] = CH_LBRACKET /\ f[3] = CH_TILDE
           THEN CASE f[2] \in {CH_0 + 1, CH_0 + 7} -> HOME_KEY
                  [] f[2] = CH_0 + 3 -> DEL_KEY
                  [] f[2] \in {CH_0 + 4, CH_0 + 8} -> END_KEY
                  [] f[2] = CH_0 + 5 -> PAGE_UP
                  [] f[2] = CH_0 + 6 -> PAGE_DOWN
                  [] OTHER -> ESC
           ELSE ESC
  ELSE IF f = <<CH_LBRACKET, CH_A>> THEN ARROW_UP
  ELSE IF f = <<CH_LBRACKET, CH_B>> THEN ARROW_DOWN
  ELSE IF f = <<CH_LBRACKET, CH_C>> THEN ARROW_RIGHT
  ELSE IF f = <<CH_LBRACKET, CH_D>> THEN ARROW_LEFT
  ELSE IF f \in {<<CH_LBRACKET, CH_H>>, <<CH_O, CH_H>>} THEN HOME_KEY
  ELSE IF f \in {<<CH_LBRACKET, CH_F>>, <<CH_O, CH_F>>} THEN END_KEY
  ELSE ESC

\* C5: a decode whose reads all deliver a byte returns the key of the table:
\* a non-escape first byte as itself; ESC [ digit takes a third follow byte
\* and gives the named key only for ~ behind 1,3,4,5,6,7,8; every other two
\* follow bytes return at once with the arrow, Home or End of the table, and
\* Escape for every combination outside the table.
C5_DecodeTable ==
  [][ rd'.n = 1 =>
        /\ (pc = "read0" /\ rd'.b # ESC) => (pc' = "dispatch" /\ key' = rd'.b)
        /\ (pc = "read0" /\ rd'.b = ESC) => pc' = "read1"
        /\ pc = "read1" => pc' = "read2"
        /\ (pc = "read2" /\ seq[1] = CH_LBRACKET /\ IsDigit(rd'.b)) =>
             pc' = "read3"
        /\ (pc = "read2" /\ ~(seq[1] = CH_LBRACKET /\ IsDigit(rd'.b))) =>
             (pc' = "dispatch" /\ key' = TableKey(<<seq[1], rd'.b>>))
        /\ pc = "read3" =>
             (pc' = "dispatch" /\ key' = TableKey(<<seq[1], seq[2], rd'.b>>))
    ]_vars

\* ESC [ 5 ~ has just been decoded to PageUp
C5_Witness ==
  /\ pc = "dispatch"
  /\ key = PAGE_UP
  /\ attempts = 3
  /\ rd = [n |-> 1, b |-> CH_TILDE, errno |-> 0]

\* C6: behind the ESC byte a read that delivers no byte, at the first,
\* second or third follow position, makes the decode return Escape at once;
\* a decode makes at most three read attempts behind ESC and always returns.
C6_ShortReadIsEscape ==
  /\ [][ (pc \in FollowPcs /\ rd'.n # 1) =>
           (pc' = "dispatch" /\ key' = ESC) ]_vars
  /\ [](attempts <= 3)
  /\ [](pc \in FollowPcs => <>(pc = "dispatch"))

\* the third follow read timed out and the decode returned Escape
C6_Witness ==
  /\ pc = "dispatch"
  /\ key = ESC
  /\ attempts = 3
  /\ rd.n = 0

\* the read at the first byte came back without a byte and without a
\* fatal error
BenignTimeout(r) == r.n = 0 \/ (r.n = 0 - 1 /\ r.errno = EAGAIN)

\* C7: at the first byte a timeout yields no key and does not end the
\* process, the decoder stays at the read; once a byte arrives the decode
\* returns a key derived from it: the byte itself, or for ESC the key of
\* the escape sequence after the follow reads.
C7_FirstByteRetry ==
  /\ [][ (pc = "read0" /\ BenignTimeout(rd')) =>
           (pc' = "read0" /\ UNCHANGED <<key, status, E>>)
     ]_vars
  /\ [][ (pc = "read0" /\ rd'.n = 1) =>
           IF rd'.b = ESC THEN pc' = "read1"
           ELSE pc' = "dispatch" /\ key' = rd'.b ]_vars
  /\ [](pc = "read1" =>
          <>(pc = "dispatch" /\ (key = ESC \/ key >= ARROW_LEFT)))

\* the decoder sits at the first read after a timeout
C7_Witness ==
  /\ pc = "read0"
  /\ rd.n = 0
  /\ status = 0

\* C8: a read failure other than a timeout, at the first byte or at any
\* follow byte, ends the process with a failure status.
C8_ReadFailureIsFatal ==
  [][ (pc \in {"read0"} \cup FollowPcs /\ rd'.n = 0 - 1 /\ rd'.errno # EAGAIN)
        => (pc' = "exited" /\ status' = 1) ]_vars

(***************************************************************************)
(* Properties of the arrow keys                                            *)
(***************************************************************************)
\* editorProcessKeyPress dispatches key k in this step and returns, on a
\* text area of at least one row and one column
Dispatched(k) ==
  /\ pc = "dispatch" /\ key = k /\ pc' = "refresh"
  /\ E.screenrows >= 1 /\ E.screencols >= 1

\* C9: ArrowLeft at column 0 of a row r > 0 goes to the end of row r - 1,
\* ArrowRight at the end of an existing row goes to column 0 of the next
\* row, ArrowLeft at (0,0) and ArrowRight on the past-last row change
\* nothing, and in every other case the column changes by exactly one and
\* the row stays.
C9_HorizontalMoves ==
  [][ /\ Dispatched(ARROW_LEFT) =>
           IF E.cx = 0 /\ E.cy > 0
             THEN E'.cy = E.cy - 1 /\ E'.cx = RawLen(E, E.cy - 1)
           ELSE IF E.cx = 0 /\ E.cy = 0
             THEN E'.cy = E.cy /\ E'.cx = E.cx
             ELSE E'.cy = E.cy /\ E'.cx = E.cx - 1
      /\ Dispatched(ARROW_RIGHT) =>
           IF E.cy < E.numrows /\ E.cx = RawLen(E, E.cy)
             THEN E'.cy = E.cy + 1 /\ E'.cx = 0
           ELSE IF E.cy = E.numrows
             THEN E'.cy = E.cy /\ E'.cx = E.cx
             ELSE E'.cy = E.cy /\ E'.cx = E.cx + 1
    ]_vars

\* C10: ArrowUp on row 0 and ArrowDown on the past-last row leave the row,
\* every other vertical move changes it by exactly one, and the column
\* becomes min(col, raw length of the new row), 0 for the past-last row.
C10_VerticalMoves ==
  [][ /\ Dispatched(ARROW_UP) =>
           /\ E'.cy = IF E.cy = 0 THEN 0 ELSE E.cy - 1
           /\ E'.cx = Min(E.cx, RawLen(E, E'.cy))
      /\ Dispatched(ARROW_DOWN) =>
           /\ E'.cy = IF E.cy = E.numrows THEN E.cy ELSE E.cy + 1
           /\ E'.cx = Min(E.cx, RawLen(E, E'.cy))
    ]_vars

(***************************************************************************)
(* Properties of Home, End and the page keys                               *)
(***************************************************************************)
Max(a, b) == IF a > b THEN a ELSE b

\* C11: PageUp leaves the cursor on row max(0, rowoff - screenrows) and
\* PageDown on row min(numrows, rowoff + 2 * screenrows - 1), with rowoff
\* and screenrows as they are when the key is dispatched.
C11_PageMoves ==
  [][ /\ Dispatched(PAGE_UP) => E'.cy = Max(0, E.rowoff - E.screenrows)
      /\ Dispatched(PAGE_DOWN) =>
           E'.cy = Min(E.numrows, E.rowoff + 2 * E.screenrows - 1)
    ]_vars

\* editorProcessKeyPress dispatches key k in this step and returns
Handled(k) == pc = "dispatch" /\ key = k /\ pc' = "refresh"

\* C12: Home sets the column to 0, End sets it to the raw length of the
\* cursor's row, neither changes the cursor row, and End on the past-last
\* row leaves the cursor as it is.
C12_HomeEnd ==
  [][ /\ Handled(HOME_KEY) => (E'.cx = 0 /\ E'.cy = E.cy)
      /\ Handled(END_KEY) =>
           /\ E'.cy = E.cy
           /\ E.cy < E.numrows => E'.cx = Len(E.row[E.cy + 1].chars)
           /\ E.cy = E.numrows => E'.cx = E.cx
    ]_vars

\* End has taken the cursor from column 0 to the end of a row with a tab.
\* rx and rowoff are those of the last refresh, made at column 0 of this
\* row: the one-row window rules out an arrival from the row below, the
\* rx an arrival from column 1.
C12_Witness ==
  /\ pc = "refresh"
  /\ E.numrows = 2
  /\ E.screenrows = 1
  /\ E.cy = 0
  /\ E.rowoff = 0
  /\ E.row[1].chars = <<CH_a, TAB>>
  /\ E.cx = 2
  /\ E.rx = 0

(***************************************************************************)
(* Properties of the ends of the loop                                      *)
(***************************************************************************)
\* the process is gone: it called exit() or was killed by a fault
Terminated == pc \in {"exited", "crashed"}

\* the cursor is on the row store or on its past-last row, inside the row
CursorInText(e) ==
  /\ e.cy >= 0 /\ e.cy <= e.numrows
  /\ e.cx >= 0 /\ e.cx <= RawLen(e, e.cy)

\* C13 as stated: the loop goes from Running to Terminated only when the
\* decoded key is Ctrl-Q; no other key, key sequence or event ends it.
C13_OnlyQuitEnds ==
  [][ (Running /\ Terminated') => (pc = "dispatch" /\ key = CTRL_Q) ]_vars

\* C13: the loop goes from Running to Terminated only by the exit of the
\* quit case when the decoded key is Ctrl-Q, by die() when the read of a
\* key's first byte fails with an errno other than EAGAIN, or by a fault
\* of a read outside the row store once the cursor has left the text.
C13_EndsOfLoop ==
  [][ (Running /\ Terminated') =>
        \/ pc = "dispatch" /\ key = CTRL_Q
        \/ pc = "read0" /\ rd'.n = 0 - 1 /\ rd'.errno # EAGAIN
        \/ /\ pc' = "crashed"
           /\ ~CursorInText(E)
    ]_vars

\* the read of a first byte failed with EIO and die() ended the process
C13_Witness ==
  /\ pc = "exited"
  /\ status = 1
  /\ rd.n = 0 - 1
  /\ rd.errno = EIO

\* C15: dispatching a key that is not Ctrl-Q, an arrow, Home, End, PageUp
\* or PageDown leaves the cursor, the scroll offsets and the row store as
\* they are and goes back to the top of the loop.
C15_OtherKeysChangeNothing ==
  [][ (pc = "dispatch" /\
       key \notin {CTRL_Q, ARROW_LEFT, ARROW_RIGHT, ARROW_UP, ARROW_DOWN,
                   HOME_KEY, END_KEY, PAGE_UP, PAGE_DOWN}) =>
        (E' = E /\ pc' = "refresh")
    ]_vars

\* Delete is in the switch with the cursor inside a row, off the origin,
\* the window scrolled
C15_Witness ==
  /\ pc = "dispatch"
  /\ key = DEL_KEY
  /\ E.cy > 0
  /\ E.cx > 0
  /\ E.rowoff > 0

(***************************************************************************)
(* Properties of the terminal output                                       *)
(***************************************************************************)
\* C14: when Ctrl-Q is dispatched the process writes ESC [ 2 J, then
\* ESC [ H, and exits with status 0; no step (no refresh, no key read) is
\* taken after an exit.
C14_QuitClearsAndExits ==
  /\ [][ (pc = "dispatch" /\ key = CTRL_Q) =>
           /\ SubSeq(out', 1, 2) = << <<27, 91, 50, 74>>, <<27, 91, 72>> >>
           /\ pc' = "exited"
           /\ status' = 0 ]_vars
  /\ [][ pc # "exited" ]_vars

\* the bytes of a sequence of abAppend calls that all find memory
Flat(calls) == AppendAll(<<>>, calls, {})

\* the frame of a refresh: hide-cursor, cursor-home, the visible rows, the
\* status line, the message line, the cursor position, show-cursor
Frame(e, fresh) ==
  <<27, 91, 63, 50, 53, 108>> \o <<27, 91, 72>>
    \o Flat(editorDrawRows(e))
    \o Flat(editorDrawStatusBar(e))
    \o Flat(editorDrawMessageBar(e, fresh))
    \o CursorPosition(e)
    \o <<27, 91, 63, 50, 53, 104>>

\* a is b with some of its elements left out
RECURSIVE IsSubsequence(_, _)
IsSubsequence(a, b) ==
  IF a = <<>> THEN TRUE
  ELSE IF b = <<>> THEN FALSE
  ELSE IF Head(a) = Head(b) THEN IsSubsequence(Tail(a), Tail(b))
  ELSE IsSubsequence(a, Tail(b))

\* the step starts the read of a key
StartsKeyRead == pc # "read0" /\ pc' = "read0"

\* C16 as stated: a key read is started only by a refresh, and each refresh
\* issues exactly one write whose payload is the whole frame in order.
C16_OneWholeFramePerRefresh ==
  [][ StartsKeyRead =>
        /\ pc = "refresh"
        /\ out' \in { <<Frame(E', fresh)>> : fresh \in BOOLEAN } ]_vars

\* C16: a key read is started only by a refresh, and each refresh issues
\* exactly one write; when no abAppend fails to allocate its payload is the
\* whole frame in order, otherwise it is the frame with bytes left out.
C16_OneWritePerRefresh ==
  [][ StartsKeyRead =>
        /\ pc = "refresh"
        /\ Len(out') = 1
        /\ \E fresh \in BOOLEAN :
             IF enomem' = 0
               THEN out'[1] = Frame(E', fresh)
               ELSE IsSubsequence(out'[1], Frame(E', fresh)) ]_vars

\* a refresh with all memory granted has drawn rows 1 and 2 of the
\* three-line file, scrolled down by one
C16_Witness ==
  /\ pc = "read0"
  /\ enomem = 0
  /\ E.numrows = 3
  /\ E.rowoff = 1
  /\ E.screenrows = 2
  /\ out = << Frame(E, TRUE) >>

(***************************************************************************)
(* Properties of the viewport                                              *)
(***************************************************************************)
\* C17: editorScroll called a second time with the cursor unchanged leaves
\* rowoff, coloff and rx as the first call set them, for every cursor, row
\* store, window size and starting offsets.
C17_ScrollIdempotent ==
  [][ (pc = "scrolled" /\ pc' = "rescrolled") =>
        /\ E'.rowoff = E.rowoff
        /\ E'.coloff = E.coloff
        /\ E'.rx = E.rx ]_vars

\* both calls are made, on a cursor that the first call had to scroll to
\* from offsets beyond it: the tab's column 8 is the last one of the window,
\* row 2 the last row
C17_Witness ==
  /\ pc = "rescrolled"
  /\ E.numrows = 3
  /\ E.screenrows = 2
  /\ E.cy = 2
  /\ E.cx = 1
  /\ E.rx = 8
  /\ E.rowoff = 1
  /\ E.coloff = 8 - E.screencols + 1

(***************************************************************************)
(* Properties of the tab renderer                                          *)
(***************************************************************************)
\* render, read from index idx on, is the raw bytes from the i-th on with
\* every tab replaced by 1 to 8 spaces that end on a multiple of 8 and
\* every other byte copied
RECURSIVE TabsExpanded(_, _, _, _)
TabsExpanded(chars, render, i, idx) ==
  IF i > Len(chars) THEN idx = Len(render)
  ELSE IF chars[i] = TAB
    THEN \E w \in 1..8 :
           /\ (idx + w) % 8 = 0
           /\ idx + w <= Len(render)
           /\ \A k \in (idx + 1)..(idx + w) : render[k] = SPACE
           /\ TabsExpanded(chars, render, i + 1, idx + w)
    ELSE /\ idx + 1 <= Len(render)
         /\ render[idx + 1] = chars[i]
         /\ TabsExpanded(chars, render, i + 1, idx + 1)

\* the spaces beyond one per tab that the tabs from the i-th byte on take,
\* the i-th byte standing at render index idx
RECURSIVE ExtraSpaces(_, _, _)
ExtraSpaces(chars, i, idx) ==
  IF i > Len(chars) THEN 0
  ELSE IF chars[i] = TAB
    THEN (7 - (idx % 8)) + ExtraSpaces(chars, i + 1, idx + 8 - (idx % 8))
    ELSE ExtraSpaces(chars, i + 1, idx + 1)

\* C18: in the render form every tab is 1 to 8 spaces ending on a render
\* index that is a multiple of 8, every other byte is copied in order, and
\* the render length is the raw length plus the extra spaces of the tabs;
\* a<TAB>x renders as a, 7 spaces, x, and raw index 2 has render column 8.
C18_TabsToTabStops ==
  probe.step \in {"rendered", "mapped"} =>
    /\ TabsExpanded(probe.chars, probe.render, 1, 0)
    /\ Len(probe.render) = Len(probe.chars) + ExtraSpaces(probe.chars, 1, 0)
    /\ probe.chars = <<CH_a, TAB, CH_x>> =>
         /\ probe.render = <<CH_a, 32, 32, 32, 32, 32, 32, 32, CH_x>>
         /\ (probe.step = "mapped" /\ probe.cx = 2) => probe.rx = 8

\* a<TAB>x is rendered and its raw index 2 mapped
C18_Witness ==
  /\ probe.step = "mapped"
  /\ probe.chars = <<CH_a, TAB, CH_x>>
  /\ Len(probe.render) = 9
  /\ probe.cx = 2
  /\ probe.rx = 8

\* the row holds no tab
NoTab(chars) == \A i \in 1..Len(chars) : chars[i] # TAB

\* C19: for a raw row without a tab the render form is the raw content
\* byte for byte and editorRowCxToRx(r, c) = c for every c in 0..size.
C19_NoTabIsIdentity ==
  (probe.step \in {"rendered", "mapped"} /\ NoTab(probe.chars)) =>
    /\ probe.render = probe.chars
    /\ probe.step = "mapped" => probe.rx = probe.cx

\* a row of nine plain bytes of both kinds, mapped at its end
C19_Witness ==
  /\ probe.step = "mapped"
  /\ NoTab(probe.chars)
  /\ Len(probe.chars) = 9
  /\ probe.chars[1] = CH_x
  /\ probe.chars[2] = CH_a
  /\ probe.render = probe.chars
  /\ probe.cx = 9
  /\ probe.rx = 9

(***************************************************************************)
(* Properties of the welcome screen                                        *)
(***************************************************************************)
\* the text rows of a frame of n rows, from row y on: row banner shows the
\* placeholder, 24 spaces and the welcome text (25 columns to its left, 26
\* to its right on 80 columns), every other row the placeholder alone; each
\* row ends with ESC [ K and a line break
RECURSIVE TextRows(_, _, _)
TextRows(n, y, banner) ==
  IF y >= n THEN <<>>
  ELSE (IF y = banner
          THEN <<126>> \o [i \in 1..24 |-> 32] \o WELCOME
          ELSE <<126>>)
         \o <<27, 91, 75, 13, 10>> \o TextRows(n, y + 1, banner)

\* the payload starts with hide-cursor and cursor-home, goes on with the 22
\* text rows, the welcome text on row banner, and then with the status line
ShowsBannerOn(payload, banner) ==
  LET head == <<27, 91, 63, 50, 53, 108, 27, 91, 72>>
                \o TextRows(22, 0, banner) \o <<27, 91, 55, 109>>
  IN /\ Len(payload) >= Len(head)
     /\ SubSeq(payload, 1, Len(head)) = head

\* a refresh has just written its frame
Refreshed == pc = "read0" /\ Len(out) = 1

C21_RestoreBeforeEnd ==
  (Terminated /\ termios.raw) => termios.restores > 0

(***************************************************************************)
(* Properties of the viewport                                              *)
(***************************************************************************)
\* the offset that a window of n cells at offset off takes for position p:
\* off itself when p is inside, else the one that puts p on the nearest
\* edge
NearestOffset(p, off, n) ==
  IF p < off THEN p
  ELSE IF p >= off + n THEN p - n + 1
  ELSE off

\* C22: editorScroll leaves rowoff and coloff as they are when the cursor
\* is inside the window, and otherwise moves each to the nearest offset that
\* shows the cursor: rowoff to cy when the cursor is above, to
\* cy - screenrows + 1 when below, coloff likewise against rx and
\* screencols, each on its own.
C22_ScrollIsMinimal ==
  [][ (pc = "refresh" /\ pc' = "read0") =>
        /\ E'.rowoff = NearestOffset(E.cy, E.rowoff, E.screenrows)
        /\ E'.coloff = NearestOffset(E'.rx, E.coloff, E.screencols) ]_vars

(***************************************************************************)
(* Properties of the rows of a frame                                       *)
(***************************************************************************)
\* the bytes of render at the indices coloff <= i < min(Len(render),
\* coloff + cols), none when coloff >= Len(render)
RenderWindow(render, coloff, cols) ==
  [i \in 1..(Min(Len(render), coloff + cols) - coloff) |-> render[coloff + i]]

\* the screen rows of e that show a row of the file: y + rowoff < numrows
FileRowsShown(e) == Max(0, Min(e.screenrows, e.numrows - e.rowoff))

\* the first n screen rows as the frame has them when each shows the
\* window of its row's render form, then ESC [ K and "\r\n"
RECURSIVE WindowRows(_, _)
WindowRows(e, n) ==
  IF n = 0 THEN <<>>
  ELSE WindowRows(e, n - 1)
         \o RenderWindow(e.row[(n - 1) + e.rowoff + 1].render,
                         e.coloff, e.screencols)
         \o <<27, 91, 75, 13, 10>>

\* the frame written by the refresh begins with hide-cursor and cursor-home
\* and then shows, for every screen row with a file row, that window
ShowsRenderWindows ==
  LET rows == WindowRows(E, FileRowsShown(E))
  IN SubSeq(out[1], 1, 9 + Len(rows))
       = <<27, 91, 63, 50, 53, 108, 27, 91, 72>> \o rows

\* C23 as stated: in every frame, the text of each screen row y whose file
\* row y + rowoff exists is the bytes of the row's render form from index
\* coloff up to min(rsize, coloff + screencols), none when coloff >= rsize,
\* and no other byte.
C23_RowsAreRenderWindows == Refreshed => ShowsRenderWindows

\* C23: the same, in every frame of a refresh all of whose appends found
\* memory.
C23_RowsAreRenderWindowsInMemory ==
  (Refreshed /\ enomem = 0) => ShowsRenderWindows

\* a frame of two file rows scrolled one row down and two columns right:
\* "aaa" shows its last byte, the tab's eight spaces show two
C23_Witness ==
  /\ Refreshed
  /\ enomem = 0
  /\ E.numrows = 3
  /\ E.screenrows = 2
  /\ E.screencols = 2
  /\ E.rowoff = 1
  /\ E.coloff = 2
  /\ SubSeq(out[1], 10, 22)
       = <<97, 27, 91, 75, 13, 10, 32, 32, 27, 91, 75, 13, 10>>

\* index of the first ESC byte of payload at or behind index i, and
\* Len(payload) + 1 when there is none
RECURSIVE FirstEsc(_, _)
FirstEsc(payload, i) ==
  IF i > Len(payload) \/ payload[i] = 27 THEN i
  ELSE FirstEsc(payload, i + 1)

\* from index i on, payload holds n rows, each a text without ESC followed
\* by ESC [ K and, when `broken' says so for the row, by "\r\n", and then
\* the ESC [ 7 m that opens the status line; the last of the rows is
\* followed by the line break only if lastBroken
RECURSIVE RowsThenBar(_, _, _, _)
RowsThenBar(payload, i, n, lastBroken) ==
  IF n = 0
    THEN SubSeq(payload, i, i + 3) = <<27, 91, 55, 109>>
    ELSE LET j == FirstEsc(payload, i)
         IN IF n > 1 \/ lastBroken
              THEN /\ SubSeq(payload, j, j + 4) = <<27, 91, 75, 13, 10>>
                   /\ RowsThenBar(payload, j + 5, n - 1, lastBroken)
              ELSE /\ SubSeq(payload, j, j + 2) = <<27, 91, 75>>
                   /\ RowsThenBar(payload, j + 3, n - 1, lastBroken)

\* C24 as stated: in the frame of a refresh all of whose appends found
\* memory, every visible row is followed by ESC [ K and a line break,
\* except the last one, which is followed by ESC [ K and then at once by
\* the status line.
C24_LastRowUnbroken ==
  (Refreshed /\ enomem = 0) =>
    RowsThenBar(out[1], 10, Max(0, E.screenrows), FALSE)

\* C24: in the frame of a refresh all of whose appends found memory, every
\* visible row, the last one included, is followed by ESC [ K and a line
\* break, and the status line follows the last line break.
C24_EveryRowBroken ==
  (Refreshed /\ enomem = 0) =>
    RowsThenBar(out[1], 10, Max(0, E.screenrows), TRUE)

\* a frame of two rows, "aa" and the tilde of the row behind the file, each
\* with its ESC [ K and line break, the status line behind them
C24_Witness ==
  /\ Refreshed
  /\ enomem = 0
  /\ E.numrows = 1
  /\ E.screenrows = 2
  /\ SubSeq(out[1], 10, 26)
       = <<97, 97, 27, 91, 75, 13, 10, 126, 27, 91, 75, 13, 10,
           27, 91, 55, 109>>

(***************************************************************************)
(* Properties of the status line                                           *)
(***************************************************************************)
\* n spaces
Spaces(n) == [i \in 1..n |-> 32]

\* the left segment: the file name cut to 20 bytes, or [No Name], then
\* " - ", the number of rows and " lines"
LeftSegment(e) ==
  (IF Len(e.filename) = 0
     THEN <<91, 78, 111, 32, 78, 97, 109, 101, 93>>
     ELSE SubSeq(e.filename, 1, Min(20, Len(e.filename))))
    \o <<32, 45, 32>> \o FormatInt(e.numrows)
    \o <<32, 108, 105, 110, 101, 115>>

\* the right segment: current row / total rows
RightSegment(e) == FormatInt(e.cy + 1) \o <<47>> \o FormatInt(e.numrows)

\* screencols characters: both segments with spaces between them when they
\* fit, else the left one cut to screencols and padded with spaces
StatusContent(e) ==
  LET left == LeftSegment(e)
      right == RightSegment(e)
  IN IF Len(left) + Len(right) <= e.screencols
       THEN left \o Spaces(e.screencols - Len(left) - Len(right)) \o right
       ELSE LET cut == SubSeq(left, 1, Min(Len(left), e.screencols))
            IN cut \o Spaces(e.screencols - Len(cut))

\* the status line written: ESC [ 7 m, the content, ESC [ m, "\r\n"
ShowsStatusContent ==
  out[1] = <<27, 91, 55, 109>> \o StatusContent(E) \o <<27, 91, 109, 13, 10>>

\* C25 as stated: the status line always has, between ESC [ 7 m and
\* ESC [ m, exactly screencols characters: the left segment cut to
\* screencols, spaces, and the right segment "row/rows" ending in the last
\* column when both fit; the left segment padded with spaces when not.
C25_StatusLineFillsWidth == pc = "barred" => ShowsStatusContent

\* C25: the same for every status line all of whose appends found memory.
C25_StatusLineFillsWidthInMemory ==
  (pc = "barred" /\ enomem = 0) => ShowsStatusContent

\* 24 columns, no file: "[No Name] - 0 lines", two spaces, "3/0"
C25_Witness ==
  /\ pc = "barred"
  /\ enomem = 0
  /\ E.screencols = 24
  /\ out[1] = <<27, 91, 55, 109,
                91, 78, 111, 32, 78, 97, 109, 101, 93, 32, 45, 32, 48, 32,
                108, 105, 110, 101, 115, 32, 32, 51, 47, 48,
                27, 91, 109, 13, 10>>

(***************************************************************************)
(* Properties of appends that find no memory                               *)
(***************************************************************************)
\* the bytes of the calls with the k calls from the i-th on left out
FrameWithout(calls, i, k) ==
  Flat(SubSeq(calls, 1, i - 1)) \o Flat(SubSeq(calls, i + k, Len(calls)))

\* C26: a refresh in which appends find no memory still makes its one
\* write; the frame written is the bytes of all the other appends, those
\* before and those behind the failed ones, in order; and the cursor, the
\* offsets and the row store are what editorScroll alone made of them.
C26_FailedAppendIsNoOp ==
  [][ (pc = "refresh" /\ pc' = "read0" /\ enomem' > 0) =>
        /\ Len(out') = 1
        /\ \E fresh \in BOOLEAN :
             LET calls == RefreshAppends(E', fresh)
             IN \E i \in 1..Len(calls) :
                  out'[1] = FrameWithout(calls, i, enomem')
        /\ \E past \in [1..BytesReadOutside(E) -> GarbageBytes] :
             E' = editorScroll(E, past) ]_vars

\* the append of ESC [ 7 m found no memory: the frame has its rows, then
\* at once the text of the status line, and ends with show-cursor
C26_Witness ==
  /\ Refreshed
  /\ enomem = 1
  /\ E.numrows = 1
  /\ E.screenrows = 1
  /\ E.screencols = 2
  /\ SubSeq(out[1], 1, 18)
       = <<27, 91, 63, 50, 53, 108, 27, 91, 72, 97, 97, 27, 91, 75, 13, 10,
           110, 111>>
  /\ SubSeq(out[1], Len(out[1]) - 5, Len(out[1]))
       = <<27, 91, 63, 50, 53, 104>>

(***************************************************************************)
(* Properties of the accesses to the row store                             *)
(***************************************************************************)
\* the C indices i of the E.row[i] that the step about to be taken reads:
\* in the switch, the row of the cursor where E.cy < E.numrows, the row
\* above it for ArrowLeft in column 0, the row the cursor is moved to; in
\* the refresh, the row of the cursor for rx and the rows drawn
RowsRead ==
  IF pc = "dispatch"
    THEN (IF key \in {ARROW_LEFT, ARROW_RIGHT, ARROW_UP, ARROW_DOWN, END_KEY}
             /\ E.cy < E.numrows
            THEN {E.cy} ELSE {})
           \cup (IF key = ARROW_LEFT /\ E.cx = 0 /\ E.cy > 0
                   THEN {E.cy - 1} ELSE {})
           \cup (IF key = ARROW_UP /\ E.cy # 0 /\ E.cy - 1 < E.numrows
                   THEN {E.cy - 1} ELSE {})
           \cup (IF key = ARROW_DOWN /\ E.cy < E.numrows
                    /\ E.cy + 1 < E.numrows
                   THEN {E.cy + 1} ELSE {})
  ELSE IF pc = "refresh"
    THEN (IF E.cy < E.numrows THEN {E.cy} ELSE {})
           \cup {y + editorScroll(E, <<>>).rowoff :
                   y \in {z \in 0..(E.screenrows - 1) :
                            z + editorScroll(E, <<>>).rowoff < E.numrows}}
  ELSE {}

\* C27: every access to the row store made by the key dispatch, by
\* editorScroll and by the drawing of the rows uses an index i with
\* 0 <= i < E.numrows, whatever the row store and the keys so far.
C27_RowIndexInRange == \A i \in RowsRead : i >= 0 /\ i < E.numrows

(***************************************************************************)
(* Properties of the text area                                             *)
(***************************************************************************)
\* C28: behind initEditor the text area of the loop is at least one row
\* high and one column wide, whatever window size was reported, and the
\* loop of PageUp and PageDown over E.screenrows moves always comes to its
\* end.
C28_TextAreaPositive ==
  /\ Running => (E.screenrows >= 1 /\ E.screencols >= 1)
  /\ pc # "hung"

(***************************************************************************)
(* ArrowLeft against ArrowRight                                            *)
(***************************************************************************)
\* row and column of the cursor
Cursor(e) == <<e.cy, e.cx>>

\* C29: from a cursor inside the text, when the dispatch of ArrowRight has
\* moved the cursor, ArrowLeft dispatched next puts it back on the row and
\* column it came from, and when the dispatch of ArrowLeft has moved it,
\* ArrowRight dispatched next puts it back; row ends, row starts and the
\* past-last row included.
C29_LeftRightInverse ==
  [][ /\ (Handled(ARROW_RIGHT) /\ CursorInText(E)
           /\ Cursor(E') # Cursor(E)) =>
             Cursor(editorMoveCursor(E', ARROW_LEFT, 0)) = Cursor(E)
      /\ (Handled(ARROW_LEFT) /\ CursorInText(E)
           /\ Cursor(E') # Cursor(E)) =>
             Cursor(editorMoveCursor(E', ARROW_RIGHT, 0)) = Cursor(E)
    ]_vars

\* ArrowLeft is in the switch with the cursor on the past-last row of the
\* file of three rows, from where it wraps to the end of the last row
C29_Witness ==
  /\ pc = "dispatch"
  /\ key = ARROW_LEFT
  /\ E.numrows = 3
  /\ E.cy = 3
  /\ E.cx = 0

(***************************************************************************)
(* Properties of the bytes a decode takes                                  *)
(***************************************************************************)
\* the bytes read() has handed to the call of editorReadKey under way
TakenBytes == SubSeq(stdin.typed, stdin.start + 1, stdin.pos)

\* C30: a call of editorReadKey returns one key and has taken from the
\* input at least one byte and at most four: the first byte alone unless it
\* is ESC, and behind ESC every follow byte that a read() returned, a
\* fourth byte only behind ESC [ and a digit; no byte taken is ever back in
\* the input, so none is the first byte of a later call.
C30_DecodeTakesItsBytes ==
  /\ [](pc = "dispatch" =>
          /\ Len(TakenBytes) >= 1 /\ Len(TakenBytes) <= 4
          /\ Len(TakenBytes) = (1 + attempts) - (IF rd.n = 1 THEN 0 ELSE 1)
          /\ TakenBytes[1] # ESC => (Len(TakenBytes) = 1 /\ key = TakenBytes[1])
          /\ Len(TakenBytes) = 4 =>
               /\ TakenBytes[1] = ESC
               /\ TakenBytes[2] = CH_LBRACKET
               /\ IsDigit(TakenBytes[3]))
  /\ [][ /\ stdin'.typed = stdin.typed
         /\ stdin'.pos >= stdin.pos
         /\ stdin'.start \in {stdin.start, stdin.pos} ]_vars

\* ESC [ 5 H is not a sequence of the table: the call has returned Escape
\* with all four bytes taken, and the byte behind them is what the next
\* call will read
C30_Witness ==
  /\ pc = "dispatch"
  /\ key = ESC
  /\ TakenBytes = <<27, 91, 53, 72>>
  /\ stdin.pos < Len(stdin.typed)

====
